---- MODULE Spec2Model ----
(***************************************************************************)
(* Model of pkg/output/printer.go of tctl: PrintItems (the format          *)
(* dispatcher with its field and output resolution), Pager (the stream     *)
(* batcher) and newPagerWithDefault (the paging sink factory).             *)
(*                                                                         *)
(* The iterator, the pager collaborator and the three renderers are        *)
(* external: the iterator is a lazy sequence whose length and failures are *)
(* decided by the environment while it is drained; a pager acquisition, a  *)
(* release and a renderer invocation are recorded in sinks and log.        *)
(***************************************************************************)
EXTENDS Integers, Sequences, FiniteSets, TLC

\* ------------------------------------------------------------------ bounds

\* Largest value of the limit flag that is explored.
MaxLimit == 250
\* The limit flag is explored down to -NegLimit.
NegLimit == 1
\* The iterator holds at most MaxItems items.
MaxItems == 252
\* Largest limit explored together with every combination of the options.
MaxOptLimit == 2
\* Longest field override that is explored character by character.
MaxFieldLen == 3
\* Most calls a caller makes on one PrintOptions value.
MaxCalls == 2

\* ------------------------------------------------------- program constants

BatchPrintSize == 100

\* OutputOption values, the pager styles and the long-fields sentinel.
Table == "table"
JSON == "json"
Card == "card"
Less == "less"
More == "more"
FieldsLong == <<"l", "o", "n", "g">>

\* ------------------------------------------------------------------- state

VARIABLES
    ctx,          \* the cli.Context c: the flags and whether each is set
    opts,         \* the PrintOptions the caller shares between its calls
    iter,         \* the collection.Iterator handed to Pager
    pc,           \* where the running Pager call stands ("idle": no call)
    limit,        \* Pager's local limit
    itemsPrinted, \* Pager's local itemsPrinted
    batch,        \* Pager's local batch
    item,         \* Pager's local item (0: none), the value of the last Next
    err,          \* the error Pager is about to return ("nil": none)
    closeFn,      \* the sink Pager's deferred close releases (0: none)
    result,       \* what the last finished Pager call returned ("none": no call)
    callsLeft,    \* how many more calls the caller makes
    callOpts,     \* the PrintOptions as they were passed to the last call
    sinks,        \* every pager.NewPager call so far, with the sink's fate
    log           \* every PrintItems call so far, with what it resolved

vars == <<ctx, opts, iter, pc, limit, itemsPrinted, batch, item, err, closeFn,
          result, callsLeft, callOpts, sinks, log>>

\* ------------------------------------------------------------ pure helpers

\* Go's % on int: the remainder takes the sign of the dividend.
GoRem(a, b) == IF a >= 0 THEN a % b ELSE -((-a) % b)

\* unicode.IsSpace on the characters explored: blank and tab.
IsSpace(ch) == ch \in {" ", "\t"}

\* strings.TrimSpace
RECURSIVE TrimLeft(_)
TrimLeft(s) == IF s # <<>> /\ IsSpace(Head(s)) THEN TrimLeft(Tail(s)) ELSE s

RECURSIVE TrimRight(_)
TrimRight(s) ==
    IF s # <<>> /\ IsSpace(s[Len(s)]) THEN TrimRight(SubSeq(s, 1, Len(s) - 1)) ELSE s

TrimSpace(s) == TrimRight(TrimLeft(s))

\* strings.Split(s, ","): the pieces between the commas; one piece for "".
RECURSIVE SplitFrom(_, _)
SplitFrom(s, cur) ==
    IF s = <<>> THEN <<cur>>
    ELSE IF Head(s) = "," THEN <<cur>> \o SplitFrom(Tail(s), <<>>)
    ELSE SplitFrom(Tail(s), Append(cur, Head(s)))

Split(s) == SplitFrom(s, <<>>)

TrimEach(f) == [i \in 1..Len(f) |-> TrimSpace(f[i])]

\* ------------------------------------------------------------- PrintItems

\* The zero PrintOptions (&PrintOptions{}); Nil marks a nil pointer.
ZeroOpts ==
    [Nil |-> FALSE, Fields |-> <<>>, FieldsLong |-> <<>>, IgnoreFlags |-> FALSE,
     Output |-> "", Pager |-> 0, NoHeader |-> FALSE]

\* newPagerWithDefault: the pager style asked of pager.NewPager.
DefaultPager(c) == IF c.Output = Table THEN Less ELSE More

\* pager.NewPager: a new open sink of the style asked for.
NewPager(sk, style) ==
    Append(sk, [style |-> style, open |-> TRUE, releases |-> 0, writes |-> 0])

newPagerWithDefault(c, sk) == NewPager(sk, DefaultPager(c))

\* The release function pager.NewPager returned for sink id.
Close(sk, id) ==
    [sk EXCEPT ![id].open = FALSE, ![id].releases = sk[id].releases + 1]

\* TrimSpace left out of the field override.
TrimEachSkipped(f) == f

\* Lines 71-73: every token is trimmed.
TrimTokens(f) == TrimEach(f)

\* The long merge with the long fields put first.
ResolveFieldsLongFirst(c, o) ==
    IF ~o.IgnoreFlags /\ c.FieldsIsSet
    THEN IF c.Fields = FieldsLong
         THEN [o EXCEPT !.Fields = o.FieldsLong \o o.Fields, !.FieldsLong = <<>>]
         ELSE [o EXCEPT !.Fields = TrimTokens(Split(c.Fields)), !.FieldsLong = <<>>]
    ELSE o

\* The field override applied without a look at IgnoreFlags.
ResolveFieldsDespiteIgnore(c, o) ==
    IF c.FieldsIsSet
    THEN IF c.Fields = FieldsLong
         THEN [o EXCEPT !.Fields = o.Fields \o o.FieldsLong, !.FieldsLong = <<>>]
         ELSE [o EXCEPT !.Fields = TrimTokens(Split(c.Fields)), !.FieldsLong = <<>>]
    ELSE o

\* The long merge without the reset of FieldsLong.
ResolveFieldsLongKept(c, o) ==
    IF ~o.IgnoreFlags /\ c.FieldsIsSet
    THEN IF c.Fields = FieldsLong
         THEN [o EXCEPT !.Fields = o.Fields \o o.FieldsLong]
         ELSE [o EXCEPT !.Fields = TrimTokens(Split(c.Fields)), !.FieldsLong = <<>>]
    ELSE o

\* Lines 65-77: the field override.
ResolveFields(c, o) ==
    IF ~o.IgnoreFlags /\ c.FieldsIsSet
    THEN IF c.Fields = FieldsLong
         THEN [o EXCEPT !.Fields = o.Fields \o o.FieldsLong, !.FieldsLong = <<>>]
         ELSE [o EXCEPT !.Fields = TrimTokens(Split(c.Fields)), !.FieldsLong = <<>>]
    ELSE o

\* The output resolution with opts.Output taking precedence over the flag.
ResolveOutputOptsFirst(c, o) ==
    IF o.Output # "" THEN o.Output
    ELSE IF ~o.IgnoreFlags /\ c.OutputIsSet THEN c.Output
    ELSE Table

\* Lines 79-84: the output mode PrintItems dispatches on.
ResolveOutput(c, o) ==
    IF ~o.IgnoreFlags /\ c.OutputIsSet THEN c.Output
    ELSE IF o.Output # "" THEN o.Output
    ELSE Table

\* Lines 86-94: the renderer of a mode ("none": the default branch).
Renderer(output) ==
    CASE output = Table -> "PrintTable"
      [] output = JSON -> "PrintJSON"
      [] output = Card -> "PrintCards"
      [] OTHER -> "none"

\* A renderer writes its output to opts.Pager.
Render(sk, id, renderer) ==
    IF renderer = "none" THEN sk ELSE [sk EXCEPT ![id].writes = sk[id].writes + 1]

\* PrintItems(c, items, opts): the options, the sinks and the log after it.
PrintItems(c, items, o, sk, lg, caller) ==
    LET lazy == o.Pager = 0
        sk1 == IF lazy THEN newPagerWithDefault(c, sk) ELSE sk
        o1 == IF lazy THEN [o EXCEPT !.Pager = Len(sk1)] ELSE o
        o2 == ResolveFields(c, o1)
        output == ResolveOutput(c, o2)
        renderer == Renderer(output)
        sk2 == Render(sk1, o2.Pager, renderer)
        entry == [items |-> items, caller |-> caller, output |-> output,
                  renderer |-> renderer, sink |-> o2.Pager,
                  sinkOpen |-> sk1[o2.Pager].open, lazy |-> lazy,
                  noHeader |-> o2.NoHeader, ignoreFlags |-> o2.IgnoreFlags,
                  optOutput |-> o2.Output, fields |-> o2.Fields,
                  fieldsLong |-> o2.FieldsLong]
    IN [opts |-> o2,
        sinks |-> IF lazy THEN Close(sk2, o2.Pager) ELSE sk2,
        log |-> Append(lg, entry)]

\* ------------------------------------------------------------------ Pager

\* The limit check off by one: one item more than the limit is let through.
LimitReachedOffByOne(c, lim, printed) == c.LimitIsSet /\ printed > lim

\* The limit check without the test that the flag was given.
LimitReachedIgnoresIsSet(c, lim, printed) == printed >= lim

\* Line 117: the limit check.
LimitReached(c, lim, printed) == c.LimitIsSet /\ printed >= lim

\* Line 124.
IsLastBatch(lim, printed) == lim - printed < BatchPrintSize

\* The batch test without its remainder clause: only full batches count.
IsBatchFilledNoRemainder(lim, printed, len) == len = BatchPrintSize

\* Line 125.
IsBatchFilled(lim, printed, len) ==
    (len = BatchPrintSize)
    \/ (IsLastBatch(lim, printed) /\ len = GoRem(lim, BatchPrintSize))

\* The header is not suppressed after a dispatch.
NoHeaderKept(o) == o

\* Line 130: NoHeader after a dispatch.
NoHeaderAfterFlush(o) == [o EXCEPT !.NoHeader = TRUE]

\* The batch is not reset after a dispatch.
BatchKept(b) == b

\* Line 129: batch after a dispatch.
BatchAfterFlush(b) == <<>>

\* iter.HasNext() is pure: it settles, once, whether the iterator holds an
\* item beyond those pulled; the answer stays until the next pull.
HasNextAnswers(it) ==
    IF it.has = "unknown"
    THEN (IF it.pos < MaxItems THEN {"yes"} ELSE {}) \cup {"no"}
    ELSE {it.has}

\* The session's sink is not stored in the options.
StorePagerForgotten(o, id) == o

\* Line 107: the session's sink is stored in the options.
StorePager(o, id) == [o EXCEPT !.Pager = id]

\* The errors a failing Next can return.
Errors == {"errA", "errB"}

\* The error of a failed Next is swallowed.
NextErrorSwallowed(e) == "nil"

\* Line 114: what Pager returns when Next failed with e.
NextError(e) == e

\* A fresh iterator: nothing pulled, HasNext not yet asked.
NewIterator == [pos |-> 0, has |-> "unknown", calls |-> 0, failed |-> "nil"]

\* Lines 98-110: the limit is read, the sink acquired and its release
\* deferred, a nil opts replaced, the sink stored, the locals initialised.
PagerCall ==
    /\ pc = "idle"
    /\ callsLeft > 0
    /\ callsLeft' = callsLeft - 1
    /\ callOpts' = opts
    /\ limit' = ctx.Limit
    /\ sinks' = newPagerWithDefault(ctx, sinks)
    /\ closeFn' = Len(sinks')
    /\ opts' = StorePager(IF opts.Nil THEN ZeroOpts ELSE opts, closeFn')
    /\ itemsPrinted' = 0
    /\ batch' = <<>>
    /\ item' = 0
    /\ err' = "nil"
    /\ result' = "none"
    /\ iter' = NewIterator
    /\ pc' = "loop"
    /\ UNCHANGED <<ctx, log>>

\* The loop entered without asking HasNext.
LoopContinuesAlways(a) == TRUE

\* Line 111: the loop goes on while HasNext answers true.
LoopContinues(a) == a = "yes"

\* Line 111: the loop condition iter.HasNext().
LoopTest ==
    /\ pc = "loop"
    /\ \E a \in HasNextAnswers(iter) :
        /\ iter' = [iter EXCEPT !.has = a]
        /\ pc' = IF LoopContinues(a) THEN "next" ELSE "return"
    /\ UNCHANGED <<ctx, opts, limit, itemsPrinted, batch, item, err, closeFn,
                   result, callsLeft, callOpts, sinks, log>>

\* Lines 112-115: iter.Next() hands out the next item or fails.
CallNext ==
    /\ pc = "next"
    /\ \/ /\ iter' = [pos |-> iter.pos + 1, has |-> "unknown",
                      calls |-> iter.calls + 1, failed |-> "nil"]
          /\ item' = iter.pos + 1
          /\ pc' = "body"
          /\ UNCHANGED err
       \/ \E e \in Errors :
          /\ iter' = [iter EXCEPT !.calls = iter.calls + 1, !.failed = e]
          /\ err' = NextError(e)
          /\ pc' = "return"
          /\ UNCHANGED item
    /\ UNCHANGED <<ctx, opts, limit, itemsPrinted, batch, closeFn, result,
                   callsLeft, callOpts, sinks, log>>

\* Lines 117-131: the limit check, the append, and the dispatch of a batch
\* that is filled or that ends the iterator (HasNext is only asked when the
\* batch is not filled).
Body ==
    /\ pc = "body"
    /\ IF LimitReached(ctx, limit, itemsPrinted)
       THEN /\ pc' = "return"
            /\ UNCHANGED <<opts, iter, itemsPrinted, batch, sinks, log>>
       ELSE LET b == Append(batch, item)
                n == itemsPrinted + 1
                filled == IsBatchFilled(limit, n, Len(b))
            IN /\ itemsPrinted' = n
               /\ pc' = "loop"
               /\ \E a \in (IF filled THEN {iter.has} ELSE HasNextAnswers(iter)) :
                   /\ iter' = [iter EXCEPT !.has = a]
                   /\ IF filled \/ a = "no"
                      THEN LET r == PrintItems(ctx, b, opts, sinks, log, "Pager")
                           IN /\ opts' = NoHeaderAfterFlush(r.opts)
                              /\ sinks' = r.sinks
                              /\ log' = r.log
                              /\ batch' = BatchAfterFlush(b)
                      ELSE /\ batch' = b
                           /\ UNCHANGED <<opts, sinks, log>>
    /\ UNCHANGED <<ctx, limit, item, err, closeFn, result, callsLeft, callOpts>>

\* Lines 102, 114, 134: the deferred close runs and Pager returns. The
\* options Pager made for a nil opts are its own: the caller still holds nil.
Return ==
    /\ pc = "return"
    /\ sinks' = Close(sinks, closeFn)
    /\ result' = err
    /\ pc' = "idle"
    /\ opts' = IF callOpts.Nil THEN callOpts ELSE opts
    /\ UNCHANGED <<ctx, iter, limit, itemsPrinted, batch, item, err,
                   closeFn, callsLeft, callOpts, log>>

\* The batches a caller hands to PrintItems directly.
CallerItems == {<<>>, <<1>>}

\* Lines 55-95: a direct call of PrintItems.
PrintItemsCall ==
    /\ pc = "idle"
    /\ callsLeft > 0
    /\ ~opts.Nil
    /\ callsLeft' = callsLeft - 1
    /\ callOpts' = opts
    /\ \E items \in CallerItems :
        LET r == PrintItems(ctx, items, opts, sinks, log, "caller")
        IN /\ opts' = r.opts
           /\ sinks' = r.sinks
           /\ log' = r.log
    /\ UNCHANGED <<ctx, iter, pc, limit, itemsPrinted, batch, item, err,
                   closeFn, result>>

Next ==
    \/ PagerCall
    \/ LoopTest
    \/ CallNext
    \/ Body
    \/ Return
    \/ PrintItemsCall

\* ------------------------------------------------------------ initial states

Limits == (-NegLimit)..MaxLimit

\* What every specification starts from: no call made yet.
InitLocals ==
    /\ iter = NewIterator
    /\ pc = "idle"
    /\ limit = 0
    /\ itemsPrinted = 0
    /\ batch = <<>>
    /\ item = 0
    /\ err = "nil"
    /\ closeFn = 0
    /\ result = "none"
    /\ callOpts = ZeroOpts
    /\ sinks = <<>>
    /\ log = <<>>

\* One call, any limit flag (set or not), the output and field flags not
\* given; the caller passes nil or fresh options with or without NoHeader.
Init ==
    /\ ctx \in [LimitIsSet : BOOLEAN, Limit : Limits, OutputIsSet : {FALSE},
                Output : {Table}, FieldsIsSet : {FALSE}, Fields : {<<>>}]
    /\ opts \in {[ZeroOpts EXCEPT !.Nil = TRUE]}
                \cup {[ZeroOpts EXCEPT !.NoHeader = h] : h \in BOOLEAN}
    /\ callsLeft = 1
    /\ InitLocals

Spec == Init /\ [][Next]_vars

\* The values the output flag and opts.Output are explored with.
OutputValues == {"", Table, JSON, Card, "yaml"}

\* The output flag: any value when given, else the flag's default (Table
\* where the command declares the flag, "" where it does not).
OutputFlags ==
    {[IsSet |-> TRUE, Value |-> v] : v \in OutputValues}
    \cup {[IsSet |-> FALSE, Value |-> v] : v \in {"", Table}}

\* The field flag: not given, the long sentinel, or a list to be split.
FieldFlags ==
    {[IsSet |-> FALSE, Value |-> <<>>], [IsSet |-> TRUE, Value |-> FieldsLong],
     [IsSet |-> TRUE, Value |-> <<" ", "x", ",", " ", "y", " ">>]}

\* One call under a small set limit, with every combination of the output
\* flag, the field flag and the caller's options.
InitOpts ==
    /\ ctx \in {[LimitIsSet |-> TRUE, Limit |-> l, OutputIsSet |-> f.IsSet,
                 Output |-> f.Value, FieldsIsSet |-> g.IsSet, Fields |-> g.Value] :
                l \in 0..MaxOptLimit, f \in OutputFlags, g \in FieldFlags}
    /\ opts \in {[ZeroOpts EXCEPT !.Nil = TRUE]}
                \cup {[Nil |-> FALSE, Fields |-> << <<"a">>, <<"b">> >>,
                       FieldsLong |-> << <<"c">> >>, IgnoreFlags |-> i,
                       Output |-> o, Pager |-> 0, NoHeader |-> h] :
                      i \in BOOLEAN, o \in OutputValues, h \in BOOLEAN}
    /\ callsLeft = 1
    /\ InitLocals

SpecOpts == InitOpts /\ [][Next]_vars

\* The characters field overrides are made of.
FieldChars == {"x", ",", " ", "\t"}

\* The field flag's value: every string of up to MaxFieldLen characters,
\* the long sentinel, and a list with blanks around its names.
FieldInputs ==
    UNION {[1..k -> FieldChars] : k \in 0..MaxFieldLen}
    \cup {FieldsLong, <<" ", "x", ",", " ", "y", " ", ",", "z", " ">>}

\* The Fields and FieldsLong a caller declares: none, the usual disjoint
\* lists, and lists that share a name.
FieldLists ==
    {[Fields |-> <<>>, FieldsLong |-> <<>>],
     [Fields |-> << <<"a">>, <<"b">> >>, FieldsLong |-> << <<"c">> >>],
     [Fields |-> << <<"a">> >>, FieldsLong |-> << <<"b">>, <<"c">> >>],
     [Fields |-> << <<"a">>, <<"b">> >>, FieldsLong |-> << <<"b">> >>]}

\* One call under a small set limit, with every field flag (given or not),
\* a few output flags and the caller's field lists, with and without
\* IgnoreFlags.
InitFields ==
    /\ ctx \in {[LimitIsSet |-> TRUE, Limit |-> l, OutputIsSet |-> f.IsSet,
                 Output |-> f.Value, FieldsIsSet |-> g, Fields |-> v] :
                l \in 1..MaxOptLimit,
                f \in {[IsSet |-> TRUE, Value |-> JSON],
                        [IsSet |-> TRUE, Value |-> "yaml"],
                        [IsSet |-> FALSE, Value |-> Table]},
                g \in BOOLEAN, v \in FieldInputs}
    /\ opts \in {[ZeroOpts EXCEPT !.Nil = TRUE]}
                \cup {[Nil |-> FALSE, Fields |-> p.Fields,
                       FieldsLong |-> p.FieldsLong, IgnoreFlags |-> i,
                       Output |-> o, Pager |-> 0, NoHeader |-> FALSE] :
                      p \in FieldLists, i \in BOOLEAN, o \in {"", Card}}
    /\ callsLeft = 1
    /\ InitLocals

SpecFields == InitFields /\ [][Next]_vars

\* One session with default options, the limit unset or set to nothing,
\* one item or MaxLimit items.
InitLive ==
    /\ ctx \in [LimitIsSet : BOOLEAN, Limit : {0, 1, MaxLimit}, OutputIsSet : {FALSE},
                Output : {Table}, FieldsIsSet : {FALSE}, Fields : {<<>>}]
    /\ opts = ZeroOpts
    /\ callsLeft = 1
    /\ InitLocals

\* The steps of a running Pager call.
Session == LoopTest \/ CallNext \/ Body \/ Return

\* Pager is a synchronous loop: once called it keeps taking its next step
\* (HasNext and Next are taken to return).
SpecLive == InitLive /\ [][Next]_vars /\ WF_vars(Session)

\* One session of up to three batches (the limit MaxLimit, set or not) for
\* each field flag and each of the caller's field lists.
InitSession ==
    /\ ctx \in {[LimitIsSet |-> b, Limit |-> MaxLimit, OutputIsSet |-> FALSE,
                 Output |-> Table, FieldsIsSet |-> g.IsSet, Fields |-> g.Value] :
                b \in BOOLEAN, g \in FieldFlags}
    /\ opts \in {[ZeroOpts EXCEPT !.Nil = TRUE]}
                \cup {[Nil |-> FALSE, Fields |-> p.Fields,
                       FieldsLong |-> p.FieldsLong, IgnoreFlags |-> i,
                       Output |-> "", Pager |-> 0, NoHeader |-> FALSE] :
                      p \in FieldLists, i \in BOOLEAN}
    /\ callsLeft = 1
    /\ InitLocals

SpecSession == InitSession /\ [][Next]_vars

\* Up to MaxCalls calls, of PrintItems or Pager in any order, on one
\* PrintOptions value, under a small set limit.
InitCalls ==
    /\ ctx \in [LimitIsSet : {TRUE}, Limit : 1..MaxOptLimit, OutputIsSet : {FALSE},
                Output : {Table}, FieldsIsSet : {FALSE}, Fields : {<<>>}]
    /\ opts \in {ZeroOpts, [ZeroOpts EXCEPT !.Nil = TRUE]}
    /\ callsLeft = MaxCalls
    /\ InitLocals

SpecCalls == InitCalls /\ [][Next]_vars

\* ----------------------------------------------------------------- claims

Min(a, b) == IF a <= b THEN a ELSE b

RECURSIVE Sum(_)
Sum(q) == IF q = <<>> THEN 0 ELSE Head(q) + Sum(Tail(q))

\* The sizes of the batches handed to PrintItems, in dispatch order.
Sizes == [i \in 1..Len(log) |-> Len(log[i].items)]

\* A Pager call has returned.
PagerDone == pc = "idle" /\ result # "none"

\* The options Pager works on: those passed in, or the zero value for nil.
Passed == IF callOpts.Nil THEN ZeroOpts ELSE callOpts

\* The item counts the iterator may hold, given what the session saw of it.
Available ==
    IF iter.has = "no" THEN {iter.pos}
    ELSE {n \in 0..(MaxItems + 1) : n >= iter.pos /\ (iter.has = "yes" => n > iter.pos)}

\* C1: a session over an iterator that never fails renders min(L, available)
\* items when a limit L > 0 is set, and every item of the iterator when no
\* limit is set.
C1_TotalRendered ==
    (PagerDone /\ result = "nil") =>
        IF ctx.LimitIsSet
        THEN ctx.Limit > 0 => \A n \in Available : Sum(Sizes) = Min(ctx.Limit, n)
        ELSE iter.has = "no" /\ Sum(Sizes) = iter.pos

C1_Witness ==
    /\ PagerDone /\ result = "nil"
    /\ ctx.LimitIsSet /\ ctx.Limit = 150
    /\ iter.pos > 150
    /\ Sum(Sizes) = 150

\* The batch sizes a limit L calls for: L \div 100 full batches, then the
\* remainder if there is one.
ExpectedSizes(L) ==
    [i \in 1..(L \div BatchPrintSize) |-> BatchPrintSize]
    \o (IF L % BatchPrintSize # 0 THEN <<L % BatchPrintSize>> ELSE <<>>)

\* C2: with a limit L > 0 set and a non-failing iterator of at least L
\* items, the batches are floor(L/100) batches of 100 and then one of
\* L mod 100 items if that is not zero, and no other batch.
C2_BatchSizes ==
    (PagerDone /\ result = "nil" /\ ctx.LimitIsSet /\ ctx.Limit > 0
     /\ iter.pos >= ctx.Limit)
        => Sizes = ExpectedSizes(ctx.Limit)

C2_Witness ==
    /\ PagerDone /\ result = "nil"
    /\ ctx.LimitIsSet /\ ctx.Limit = 250
    /\ Sizes = <<100, 100, 50>>

\* C3: with a limit L set, Next is never called more than L times.
C3_NeverPullsBeyondLimit ==
    (ctx.LimitIsSet /\ ctx.Limit > 0) => iter.calls <= ctx.Limit

\* C4 as stated: a limit of 0, unset or explicitly set, is unbounded: a
\* session over a non-failing iterator dispatches every item it holds.
C4_ZeroLimitUnbounded ==
    (PagerDone /\ result = "nil" /\ ctx.Limit = 0)
        => (iter.has = "no" /\ Sum(Sizes) = iter.pos)

\* C4 amended: a limit of 0 is unbounded only when the limit is unset (the
\* session then dispatches every item of the iterator); with the limit
\* explicitly set to 0 the session dispatches nothing.
C4_UnsetZeroUnboundedSetZeroEmpty ==
    (PagerDone /\ result = "nil" /\ ctx.Limit = 0)
        => IF ctx.LimitIsSet
           THEN log = <<>>
           ELSE iter.has = "no" /\ Sum(Sizes) = iter.pos

C4_Witness ==
    /\ PagerDone /\ result = "nil"
    /\ ~ctx.LimitIsSet /\ ctx.Limit = 0
    /\ iter.has = "no" /\ iter.pos = 101
    /\ Sizes = <<100, 1>>

\* The items of every batch dispatched so far.
Dispatched == UNION {{log[i].items[j] : j \in 1..Len(log[i].items)} : i \in 1..Len(log)}

\* The state once Next has failed: the session is returning that error,
\* and neither the unflushed batch nor the failed item was dispatched.
C5_AfterFailure ==
    iter.failed # "nil" =>
        /\ pc \in {"return", "idle"}
        /\ err = iter.failed
        /\ (pc = "idle" => result = iter.failed)
        /\ ({batch[j] : j \in 1..Len(batch)} \cup {iter.pos + 1}) \cap Dispatched = {}

\* C5: once Next has failed the session ends and returns exactly that
\* error; nothing is dispatched after the failure, so the unflushed batch
\* is never rendered and no batch holds the failed item.
C5_NoDispatchAfterFailure ==
    [][/\ C5_AfterFailure'
       /\ iter.failed # "nil" => log' = log]_vars

C5_Witness ==
    /\ PagerDone /\ result = "errB" /\ iter.failed = "errB"
    /\ Len(log) = 1
    /\ Len(batch) = 36

\* C6: a session acquires the paging sink once (no dispatch acquires
\* another), every dispatch writes to it while it is open, and it is
\* released exactly once, when the session returns, on every exit path.
C6_SinkOnceReleasedOnce ==
    /\ (pc # "idle") =>
          /\ Len(sinks) = 1 /\ closeFn = 1
          /\ sinks[1].open /\ sinks[1].releases = 0
    /\ (pc # "idle" \/ PagerDone) =>
          \A i \in 1..Len(log) :
              log[i].sink = 1 /\ log[i].sinkOpen /\ ~log[i].lazy
    /\ PagerDone =>
          /\ Len(sinks) = 1
          /\ ~sinks[1].open /\ sinks[1].releases = 1

C6_Witness ==
    /\ PagerDone /\ result = "errA"
    /\ iter.calls = 1 /\ iter.pos = 0
    /\ sinks[1].releases = 1

\* Every dispatch after the first of the session suppresses the header.
LaterBatchesNoHeader == \A i \in 2..Len(log) : log[i].noHeader

\* C7 as stated: in a session of more than one batch noHeader is false at
\* the first dispatch and true at every later one, whatever the options.
C7_FirstBatchHasHeader ==
    (pc # "idle" \/ PagerDone) /\ Len(log) > 1
        => (~log[1].noHeader /\ LaterBatchesNoHeader)

\* C7 amended: at the first dispatch noHeader is what the caller passed in
\* (false for nil options), and it is true at every later dispatch.
C7_FirstBatchKeepsCallerHeader ==
    (pc # "idle" \/ PagerDone) /\ Len(log) > 1
        => (log[1].noHeader = Passed.NoHeader /\ LaterBatchesNoHeader)

C7_Witness ==
    /\ PagerDone /\ Len(log) = 3
    /\ ctx.LimitIsSet /\ ctx.Limit = 250
    /\ callOpts.NoHeader /\ log[1].noHeader

\* C8: every batch a session dispatches holds between 1 and BatchPrintSize
\* items.
C8_BatchBounds ==
    \A i \in 1..Len(log) :
        log[i].caller = "Pager"
            => (Len(log[i].items) >= 1 /\ Len(log[i].items) <= BatchPrintSize)

C8_Witness ==
    /\ PagerDone /\ ctx.LimitIsSet /\ ctx.Limit = 100
    /\ iter.pos > 100
    /\ Sizes = <<100>>

\* The number of renderer writes the sinks have received.
TotalWrites == Sum([i \in 1..Len(sinks) |-> sinks[i].writes])

\* The PrintItems calls that resolved to one of the three known modes.
KnownCalls == {i \in 1..Len(log) : log[i].output \in {Table, JSON, Card}}

\* C9: PrintItems resolves the mode to the output flag if it is set and
\* ignoreFlags is false, else to opts.output if not empty, else to Table;
\* a known mode invokes exactly its renderer, any other mode invokes none,
\* writes nothing and raises nothing.
C9_ResolvedMode ==
    /\ \A i \in 1..Len(log) :
          /\ log[i].output =
                (IF ctx.OutputIsSet /\ ~Passed.IgnoreFlags THEN ctx.Output
                 ELSE IF Passed.Output # "" THEN Passed.Output
                 ELSE Table)
          /\ log[i].output = Table => log[i].renderer = "PrintTable"
          /\ log[i].output = JSON => log[i].renderer = "PrintJSON"
          /\ log[i].output = Card => log[i].renderer = "PrintCards"
          /\ i \notin KnownCalls => log[i].renderer = "none"
    /\ TotalWrites = Cardinality(KnownCalls)
    /\ (PagerDone /\ iter.failed = "nil") => result = "nil"

C9_Witness ==
    /\ PagerDone /\ result = "nil"
    /\ Len(log) = 1 /\ log[1].renderer = "none" /\ log[1].output = "yaml"
    /\ TotalWrites = 0

\* C10: the pager style asked for is less exactly when the mode PrintItems
\* resolves is Table, and more for every other resolved mode.
C10_StyleFollowsResolvedMode ==
    \A i \in 1..Len(log) :
        sinks[log[i].sink].style = (IF log[i].output = Table THEN Less ELSE More)

\* The options as they stood before the i-th PrintItems call: those passed
\* in for the first, those the call before left for the others.
FieldsBefore(i) == IF i = 1 THEN Passed.Fields ELSE log[i - 1].fields

FieldsLongBefore(i) == IF i = 1 THEN Passed.FieldsLong ELSE log[i - 1].fieldsLong

NoDuplicate(q) == \A i, j \in 1..Len(q) : q[i] = q[j] => i = j

\* The calls to which the long sentinel applies.
LongOverride == ~Passed.IgnoreFlags /\ ctx.FieldsIsSet /\ ctx.Fields = FieldsLong

\* C11 as stated: under the long sentinel (ignoreFlags false) PrintItems
\* leaves fields = previous fields ++ previous fieldsLong and fieldsLong
\* empty, with no field name duplicated.
C11_LongMergeNoDuplicate ==
    LongOverride =>
        \A i \in 1..Len(log) :
            /\ log[i].fields = FieldsBefore(i) \o FieldsLongBefore(i)
            /\ log[i].fieldsLong = <<>>
            /\ NoDuplicate(log[i].fields)

\* C11 amended: fields = previous fields ++ previous fieldsLong and
\* fieldsLong empty; no name is duplicated when the previous fields and
\* fieldsLong held no name twice between them.
C11_LongMergeAppends ==
    LongOverride =>
        \A i \in 1..Len(log) :
            /\ log[i].fields = FieldsBefore(i) \o FieldsLongBefore(i)
            /\ log[i].fieldsLong = <<>>
            /\ NoDuplicate(FieldsBefore(i) \o FieldsLongBefore(i))
                  => NoDuplicate(log[i].fields)
            /\ (callsLeft = 0 /\ pc = "idle" /\ ~callOpts.Nil)
                  => (opts.Fields = log[i].fields /\ opts.FieldsLong = <<>>)

C11_Witness ==
    /\ LongOverride /\ Len(log) = 1
    /\ callOpts.Fields = << <<"a">>, <<"b">> >>
    /\ callOpts.FieldsLong = << <<"c">> >>
    /\ log[1].fields = << <<"a">>, <<"b">>, <<"c">> >>
    /\ opts.Fields = log[1].fields /\ opts.FieldsLong = <<>>

\* The positions at which the tokens of s start: after its start and after
\* each comma.
TokenStarts(s) == {0} \cup {i \in 1..Len(s) : s[i] = ","}

\* The k-th start of a token in s.
TokenStart(s, k) ==
    CHOOSE p \in TokenStarts(s) : Cardinality({q \in TokenStarts(s) : q < p}) = k - 1

\* The token of s that starts after position p, without the white space
\* around it.
TokenAt(s, p) ==
    LET ends == {q \in TokenStarts(s) : q > p} \cup {Len(s) + 1}
        e == CHOOSE q \in ends : \A r \in ends : q <= r
        ink == {i \in (p + 1)..(e - 1) : s[i] \notin {" ", "\t"}}
    IN IF ink = {} THEN <<>>
       ELSE LET lo == CHOOSE i \in ink : \A j \in ink : i <= j
                hi == CHOOSE i \in ink : \A j \in ink : i >= j
            IN [n \in 1..(hi - lo + 1) |-> s[lo + n - 1]]

\* The comma-separated tokens of s, trimmed, in order.
Tokens(s) ==
    [k \in 1..Cardinality(TokenStarts(s)) |-> TokenAt(s, TokenStart(s, k))]

\* The calls to which a field list, not the sentinel, applies.
ListOverride == ~Passed.IgnoreFlags /\ ctx.FieldsIsSet /\ ctx.Fields # FieldsLong

\* C12: under a field override other than the sentinel (ignoreFlags false)
\* PrintItems sets fields to the trimmed comma-separated tokens of the
\* override, in order, whatever fields held before, and clears fieldsLong;
\* the call raises nothing.
C12_ListOverride ==
    ListOverride =>
        /\ \A i \in 1..Len(log) :
              log[i].fields = Tokens(ctx.Fields) /\ log[i].fieldsLong = <<>>
        /\ (PagerDone /\ iter.failed = "nil") => result = "nil"
        /\ (callsLeft = 0 /\ pc = "idle" /\ ~callOpts.Nil)
              => (Len(log) = 0 \/ (opts.Fields = Tokens(ctx.Fields) /\ opts.FieldsLong = <<>>))

C12_Witness ==
    /\ ctx.Fields = <<" ", "x", ",", " ", "y", " ", ",", "z", " ">>
    /\ ListOverride /\ Len(log) = 1
    /\ callOpts.Fields = << <<"a">>, <<"b">> >>
    /\ log[1].fields = << <<"x">>, <<"y">>, <<"z">> >>
    /\ log[1].fieldsLong = <<>>

\* C13: with ignoreFlags true or no field override given, PrintItems leaves
\* fields and fieldsLong as they were, whatever the flags hold; with
\* ignoreFlags true the output flag has no effect on the resolved mode.
C13_FlagsIgnored ==
    /\ (Passed.IgnoreFlags \/ ~ctx.FieldsIsSet) =>
          /\ \A i \in 1..Len(log) :
                log[i].fields = Passed.Fields /\ log[i].fieldsLong = Passed.FieldsLong
          /\ (callsLeft = 0 /\ pc = "idle")
                => (opts.Fields = Passed.Fields /\ opts.FieldsLong = Passed.FieldsLong)
    /\ Passed.IgnoreFlags =>
          \A i \in 1..Len(log) :
              log[i].output = (IF Passed.Output # "" THEN Passed.Output ELSE Table)

C13_Witness ==
    /\ callOpts.IgnoreFlags /\ ctx.FieldsIsSet /\ ctx.Fields = FieldsLong
    /\ ctx.OutputIsSet /\ ctx.Output = JSON
    /\ Len(log) = 1 /\ log[1].output = Table
    /\ log[1].fields = << <<"a">>, <<"b">> >>
    /\ log[1].fieldsLong = << <<"c">> >>

\* A session that is returning or has returned has a reason to: the
\* iterator failed, is exhausted, or the set limit is reached.
EndsForAReason ==
    (pc = "return" \/ PagerDone) =>
        \/ err # "nil" /\ iter.failed = err
        \/ iter.has = "no"
        \/ ctx.LimitIsSet /\ itemsPrinted >= ctx.Limit

\* C14: a session over a finite iterator, under a set limit or with a
\* failing Next terminates, and it ends only on exhaustion, on the limit
\* or on the iteration error.
C14_Terminates ==
    /\ []EndsForAReason
    /\ (pc # "idle") ~> PagerDone

C14_Witness ==
    /\ PagerDone /\ result = "nil"
    /\ ctx.LimitIsSet /\ ctx.Limit = 1
    /\ iter.pos = 2 /\ iter.has = "unknown"
    /\ Sizes = <<1>>

\* C15: with a limit L set and the first L pulls successful the session
\* returns no error, whatever a later pull would return.
C15_LateFailureUnseen ==
    (PagerDone /\ ctx.LimitIsSet /\ ctx.Limit > 0 /\ iter.pos >= ctx.Limit)
        => result = "nil"

\* C17: Next is only called in a state in which the last HasNext on the
\* iterator, with no pull since, answered true.
C17_NextOnlyAfterHasNext ==
    [][iter'.calls > iter.calls => iter.has = "yes"]_vars

C17_Witness ==
    /\ pc = "body" /\ iter.calls = 101 /\ item = 101
    /\ Len(log) = 1 /\ batch = <<>>

\* q holds the items from + 1, from + 2, ... in order.
Consecutive(q, from) == \A j \in 1..Len(q) : q[j] = from + j

\* The last item dispatched before the i-th batch (0: none).
LastBefore(i) == IF i = 1 THEN 0 ELSE log[i - 1].items[Len(log[i - 1].items)]

\* C18: the dispatched batches, in order, followed by the batch in the
\* making are exactly the items pulled and kept so far, in pull order: no
\* item is dropped, duplicated, reordered or carried into a later batch.
C18_BatchesArePrefix ==
    (pc # "idle" \/ PagerDone) =>
        /\ \A i \in 1..Len(log) :
              log[i].items # <<>> /\ Consecutive(log[i].items, LastBefore(i))
        /\ Consecutive(batch, LastBefore(Len(log) + 1))
        /\ LastBefore(Len(log) + 1) + Len(batch) = itemsPrinted
        /\ itemsPrinted <= iter.pos

C18_Witness ==
    /\ PagerDone /\ result = "nil" /\ Len(log) = 3
    /\ log[2].items[1] = 101 /\ log[3].items[1] = 201
    /\ iter.pos = 230 /\ Sum(Sizes) = 230

\* C20: with the limit flag not given its value has no influence: the
\* batches are full batches of BatchPrintSize followed by at most one
\* smaller last batch, whatever the value.
C20_UnsetLimitNoInfluence ==
    (PagerDone /\ result = "nil" /\ ~ctx.LimitIsSet)
        => Sizes = ExpectedSizes(iter.pos)

\* C16: the fields and fieldsLong the renderer sees are the same for every
\* batch of a session, although the override is applied at every dispatch.
C16_FieldsSameForEveryBatch ==
    (pc # "idle" \/ PagerDone) =>
        \A i \in 2..Len(log) :
            log[i].fields = log[1].fields /\ log[i].fieldsLong = log[1].fieldsLong

C16_Witness ==
    /\ PagerDone /\ Len(log) = 3 /\ LongOverride
    /\ callOpts.Fields = << <<"a">>, <<"b">> >>
    /\ log[3].fields = << <<"a">>, <<"b">>, <<"c">> >>
    /\ log[3].fieldsLong = <<>>

\* C19: every renderer invocation, over any sequence of PrintItems and
\* Pager calls on one PrintOptions value, writes to a sink that is acquired
\* and not yet released.
C19_RendersIntoOpenSink ==
    \A i \in 1..Len(log) : log[i].renderer # "none" => log[i].sinkOpen

====
